---------------------------- MODULE Spec2Model ----------------------------
(***************************************************************************)
(* Model of src/color/color_rate.py: the color-distance helper, the        *)
(* similarity scorer (calculate_enhanced_similarity), the reference        *)
(* aggregator (process_json_file) and the directory scoring driver         *)
(* (calculate_similarity_scores_dict).                                     *)
(*                                                                         *)
(* Numbers.  The program computes in floating point.  The model computes   *)
(* in exact fixed point: the value 1.0 is One == 10 * SimScale units, so   *)
(* that 0.8 * s and 0.3 are whole numbers of units, and the quotient       *)
(* matches / total_comparisons is an exact fraction in lowest terms.       *)
(* The only rounding is in the color similarity, whose distance ratio      *)
(* sqrt(d2 / 195075) is rounded up to a multiple of 1 / SimScale.          *)
(*                                                                         *)
(* A Python dict is a sequence of <<key, value>> pairs with distinct keys, *)
(* in insertion order.                                                     *)
(***************************************************************************)
EXTENDS Integers, Sequences, FiniteSets, TLC

VARIABLES
    \* calculate_enhanced_similarity
    dict1, dict2, matches, total_comparisons, color_similarities, pc, i, ret,
    \* calculate_similarity_scores_dict
    user_dict, dir_exists, json_files, file_idx, similarity_scores_dict,
    dpc, raised, sources,
    \* process_json_file called on its own
    file, agg,
    \* calculate_color_similarity called on its own
    color1, color2, similarity

scorerVars == <<dict1, dict2, matches, total_comparisons, color_similarities, pc, i, ret>>
driverVars == <<user_dict, dir_exists, json_files, file_idx, similarity_scores_dict,
                dpc, raised, sources>>
aggVars    == <<file, agg>>
colorVars  == <<color1, color2, similarity>>
vars       == <<scorerVars, driverVars, aggVars, colorVars>>

---------------------------------------------------------------------------
(* Bounds of the model *)

SimScale == 100
MaxUser == 2
MaxRef == 2
MaxEntries == 3
MaxFileEntries == 2

One == 10 * SimScale

---------------------------------------------------------------------------
(* Strings: str.lower() on the strings the model uses *)

Lower(s) ==
    CASE s = "X"     -> "x"
      [] s = "Y"     -> "y"
      [] s = "Red"   -> "red"
      [] s = "BLUE"  -> "blue"
      [] s = "White" -> "white"
      [] OTHER       -> s

(* Dicts *)

Keys(d)   == {d[k][1] : k \in 1..Len(d)}
Values(d) == {d[k][2] : k \in 1..Len(d)}
Has(d, key) == key \in Keys(d)
Get(d, key) == d[CHOOSE k \in 1..Len(d) : d[k][1] = key][2]
IsDict(d) == \A a, b \in 1..Len(d) : d[a][1] = d[b][1] => a = b
DictsOver(K, V, n) ==
    {d \in UNION {[1..m -> K \X V] : m \in 0..n} : IsDict(d)}

(* Exact fractions in lowest terms *)

RECURSIVE GCD(_, _)
GCD(a, b) == IF b = 0 THEN a ELSE GCD(b, a % b)
Frac(n, d) == LET g == GCD(n, d) IN <<n \div g, d \div g>>
Zero == <<0, 1>>
Unity == <<1, 1>>
FracLeq(p, q) == p[1] * q[2] <= q[1] * p[2]
FracLess(p, q) == p[1] * q[2] < q[1] * p[2]

---------------------------------------------------------------------------
(* The palette, lines 8-30 *)

color_to_rgb ==
    [c \in {"red", "green", "blue", "yellow", "cyan", "magenta", "orange", "purple",
            "pink", "brown", "gray", "grey", "black", "white", "lime", "navy", "teal",
            "olive", "maroon", "silver", "gold"} |->
        CASE c = "red"     -> <<255, 0, 0>>
          [] c = "green"   -> <<0, 255, 0>>
          [] c = "blue"    -> <<0, 0, 255>>
          [] c = "yellow"  -> <<255, 255, 0>>
          [] c = "cyan"    -> <<0, 255, 255>>
          [] c = "magenta" -> <<255, 0, 255>>
          [] c = "orange"  -> <<255, 165, 0>>
          [] c = "purple"  -> <<128, 0, 128>>
          [] c = "pink"    -> <<255, 192, 203>>
          [] c = "brown"   -> <<165, 42, 42>>
          [] c = "gray"    -> <<128, 128, 128>>
          [] c = "grey"    -> <<128, 128, 128>>
          [] c = "black"   -> <<0, 0, 0>>
          [] c = "white"   -> <<255, 255, 255>>
          [] c = "lime"    -> <<0, 255, 0>>
          [] c = "navy"    -> <<0, 0, 128>>
          [] c = "teal"    -> <<0, 128, 128>>
          [] c = "olive"   -> <<128, 128, 0>>
          [] c = "maroon"  -> <<128, 0, 0>>
          [] c = "silver"  -> <<192, 192, 192>>
          [] c = "gold"    -> <<255, 215, 0>>]

\* color_to_rgb.get(name.lower(), [0, 0, 0])
LookupRGB(name) ==
    IF Lower(name) \in DOMAIN color_to_rgb THEN color_to_rgb[Lower(name)] ELSE <<0, 0, 0>>

\* sum((a - b) ** 2 for a, b in zip(rgb1, rgb2)): the squared distance
DistSq(rgb1, rgb2) ==
    (rgb1[1] - rgb2[1]) * (rgb1[1] - rgb2[1])
  + (rgb1[2] - rgb2[2]) * (rgb1[2] - rgb2[2])
  + (rgb1[3] - rgb2[3]) * (rgb1[3] - rgb2[3])

\* 255**2 + 255**2 + 255**2, the square of max_distance
MaxDistSq == 255 * 255 + 255 * 255 + 255 * 255

\* distance / max_distance in units of 1 / SimScale, rounded up
DistRatio(d2) ==
    CHOOSE r \in 0..SimScale :
        /\ r * r * MaxDistSq >= d2 * SimScale * SimScale
        /\ r = 0 \/ (r - 1) * (r - 1) * MaxDistSq < d2 * SimScale * SimScale

Max0(x) == IF x > 0 THEN x ELSE 0

\* the normalised distance returned in place of 1 - distance
color_distance_ratio(c1, c2) ==
    10 * DistRatio(DistSq(LookupRGB(c1), LookupRGB(c2)))

\* lines 45-60; the result is in units of 1 / One
calculate_color_similarity(c1, c2) ==
    LET rgb1 == LookupRGB(c1)
        rgb2 == LookupRGB(c2)
        ratio == DistRatio(DistSq(rgb1, rgb2))
    IN  Max0(10 * (SimScale - ratio))

---------------------------------------------------------------------------
(* process_json_file, lines 105-150 *)

\* A reference source as open() and json.load() find it
MissingFile    == [kind |-> "missing"]
UnreadableFile == [kind |-> "unreadable"]
InvalidJson    == [kind |-> "invalid_json"]
JsonNoEntries  == [kind |-> "json", data |-> [version |-> 1]]
JsonFile(es)   == [kind |-> "json", data |-> [entries |-> es]]

EntryFields == {"class", "dominant_name", "dominant_rgb", "score"}
Entry(c, n, sc) ==
    [class |-> c, dominant_name |-> n, dominant_rgb |-> LookupRGB(n), score |-> sc]
\* an entry without its 'score' field
EntryNoScore == [class |-> "x", dominant_name |-> "red", dominant_rgb |-> <<255, 0, 0>>]

\* d[key] = val on a dict: replace in place, or insert at the end
DictPut(d, key, val) ==
    IF Has(d, key)
    THEN [k \in 1..Len(d) |-> IF d[k][1] = key THEN <<key, val>> ELSE d[k]]
    ELSE Append(d, <<key, val>>)

\* defaultdict: d[key], with the default for a key not yet there
GetOr(d, key, default) == IF Has(d, key) THEN Get(d, key) ELSE default

\* max(items, key=value) keeping the last of several maxima
ArgMaxLast(q) ==
    CHOOSE k \in 1..Len(q) :
        /\ \A j \in 1..Len(q) : q[j][2] <= q[k][2]
        /\ \A j \in (k + 1)..Len(q) : q[j][2] < q[k][2]

\* lines 142, 147: max(items, key=value) returns the first of several maxima
ArgMaxFirst(q) ==
    CHOOSE k \in 1..Len(q) :
        /\ \A j \in 1..Len(q) : q[j][2] <= q[k][2]
        /\ \A j \in 1..(k - 1) : q[j][2] < q[k][2]

\* lines 123-137: the loop over the entries, from entry k on
RECURSIVE Accumulate(_, _, _, _)
Accumulate(es, k, object_color_counts, object_rgb_data) ==
    IF k > Len(es)
    THEN [exc |-> "none", counts |-> object_color_counts, rgb_data |-> object_rgb_data]
    ELSE IF ~(EntryFields \subseteq DOMAIN es[k])
    THEN [exc |-> "KeyError", counts |-> <<>>, rgb_data |-> <<>>]
    ELSE LET obj_class  == Lower(es[k].class)
             color_name == es[k].dominant_name
             old_list   == GetOr(object_rgb_data, obj_class, <<>>)
             old_counts == GetOr(object_color_counts, obj_class, <<>>)
             old_sum    == GetOr(old_counts, color_name, 0)
         IN  Accumulate(es, k + 1,
                 DictPut(object_color_counts, obj_class,
                         DictPut(old_counts, color_name, old_sum + es[k].score)),
                 DictPut(object_rgb_data, obj_class,
                         Append(old_list, <<es[k].dominant_rgb, es[k].score>>)))

\* lines 140-148: the winning color and the RGB of the best entry, per label
MostCommon(object_color_counts, object_rgb_data) ==
    [colors |-> [k \in 1..Len(object_color_counts) |->
                    LET color_counts == object_color_counts[k][2]
                    IN  <<object_color_counts[k][1],
                          color_counts[ArgMaxFirst(color_counts)][1]>>],
     rgb    |-> [k \in 1..Len(object_color_counts) |->
                    LET rgb_data == Get(object_rgb_data, object_color_counts[k][1])
                    IN  <<object_color_counts[k][1],
                          rgb_data[ArgMaxFirst(rgb_data)][1]>>]]

\* lines 105-150: what the call returns, or the exception it lets through
process_json_file(f) ==
    IF f.kind = "missing" \/ f.kind = "invalid_json"
    THEN [exc |-> "none", colors |-> <<>>, rgb |-> <<>>]
    ELSE IF f.kind = "unreadable"
    THEN [exc |-> "PermissionError", colors |-> <<>>, rgb |-> <<>>]
    ELSE IF "entries" \notin DOMAIN f.data
    THEN [exc |-> "KeyError", colors |-> <<>>, rgb |-> <<>>]
    ELSE LET acc == Accumulate(f.data.entries, 1, <<>>, <<>>)
         IN  IF acc.exc # "none"
             THEN [exc |-> acc.exc, colors |-> <<>>, rgb |-> <<>>]
             ELSE LET mc == MostCommon(acc.counts, acc.rgb_data)
                  IN  [exc |-> "none", colors |-> mc.colors, rgb |-> mc.rgb]

---------------------------------------------------------------------------
(* calculate_enhanced_similarity, lines 62-103, one action per step *)

UserLabels == {"x", "X", "y"}
UserColors == {"red", "Red", "blue"}
RefLabels  == {"x", "y", "z"}
RefColors  == {"red", "blue"}

NoRet == <<>>

\* line 76: the label is in the reference with the identical color string
ExactMatch(d2, user_obj_lower, user_color) ==
    Has(d2, user_obj_lower) /\ Get(d2, user_obj_lower) = user_color

\* the weight 0.8 written as 8
WeightedMatchUnscaled(color_sim) == color_sim * 8

\* the partial credit at full weight
WeightedMatchFull(color_sim) == color_sim

\* line 85: color_sim * 0.8
WeightedMatch(color_sim) == (color_sim * 8) \div 10

\* 0.03 written for 0.3
BonusMatchesSmall == (One * 3) \div 100

\* line 100: matches += 0.3
BonusMatches == (One * 3) \div 10

\* line 101: total_comparisons += 0.3
BonusTotal == (One * 3) \div 10

\* "and" in place of "or"
DegenerateBoth(d1, d2) == d1 = <<>> /\ d2 = <<>>

\* line 64: not dict1 or not dict2
Degenerate(d1, d2) == d1 = <<>> \/ d2 = <<>>

\* insert(0, s) in place of append(s)
PrependSim(list, s) == <<s>> \o list

\* lines 79, 88, 92: color_similarities.append(s)
AppendSim(list, s) == Append(list, s)

\* lines 96-98: a reference entry that earns the reverse-pass bonus
Qualifies(d1, json_obj, json_color) ==
    /\ json_obj \notin {Lower(d1[k][1]) : k \in 1..Len(d1)}
    /\ json_color \in Values(d1)

\* line 103: matches / total_comparisons if total_comparisons > 0 else 0.0
Quotient(m, t) == IF t > 0 THEN Frac(m, t) ELSE Zero

\* lines 64-69
Enter ==
    /\ pc = "call"
    /\ IF Degenerate(dict1, dict2)
       THEN /\ ret' = <<Zero, <<>>>>
            /\ pc' = "done"
            /\ UNCHANGED <<matches, total_comparisons, color_similarities, i>>
       ELSE /\ matches' = 0
            /\ total_comparisons' = 0
            /\ color_similarities' = <<>>
            /\ i' = 1
            /\ pc' = "forward"
            /\ UNCHANGED ret
    /\ UNCHANGED <<dict1, dict2, driverVars, aggVars, colorVars>>

\* lines 72-79
ForwardExact ==
    /\ pc = "forward" /\ i <= Len(dict1)
    /\ ExactMatch(dict2, Lower(dict1[i][1]), dict1[i][2])
    /\ matches' = matches + One
    /\ total_comparisons' = total_comparisons + One
    /\ color_similarities' = AppendSim(color_similarities, One)
    /\ i' = i + 1
    /\ UNCHANGED <<dict1, dict2, pc, ret, driverVars, aggVars, colorVars>>

\* lines 81-88
ForwardPartial ==
    /\ pc = "forward" /\ i <= Len(dict1)
    /\ ~ExactMatch(dict2, Lower(dict1[i][1]), dict1[i][2])
    /\ Has(dict2, Lower(dict1[i][1]))
    /\ LET json_color == Get(dict2, Lower(dict1[i][1]))
           color_sim == calculate_color_similarity(dict1[i][2], json_color)
       IN  /\ matches' = matches + WeightedMatch(color_sim)
           /\ total_comparisons' = total_comparisons + One
           /\ color_similarities' = AppendSim(color_similarities, color_sim)
    /\ i' = i + 1
    /\ UNCHANGED <<dict1, dict2, pc, ret, driverVars, aggVars, colorVars>>

\* lines 90-92
ForwardMissing ==
    /\ pc = "forward" /\ i <= Len(dict1)
    /\ ~ExactMatch(dict2, Lower(dict1[i][1]), dict1[i][2])
    /\ ~Has(dict2, Lower(dict1[i][1]))
    /\ total_comparisons' = total_comparisons + One
    /\ color_similarities' = AppendSim(color_similarities, 0)
    /\ i' = i + 1
    /\ UNCHANGED <<matches, dict1, dict2, pc, ret, driverVars, aggVars, colorVars>>

\* line 72, loop exhausted; line 95, the second loop starts
ForwardEnd ==
    /\ pc = "forward" /\ i > Len(dict1)
    /\ pc' = "reverse"
    /\ i' = 1
    /\ UNCHANGED <<dict1, dict2, matches, total_comparisons, color_similarities, ret,
                   driverVars, aggVars, colorVars>>

\* lines 95-101
ReverseBonus ==
    /\ pc = "reverse" /\ i <= Len(dict2)
    /\ Qualifies(dict1, dict2[i][1], dict2[i][2])
    /\ matches' = matches + BonusMatches
    /\ total_comparisons' = total_comparisons + BonusTotal
    /\ i' = i + 1
    /\ UNCHANGED <<dict1, dict2, color_similarities, pc, ret, driverVars, aggVars, colorVars>>

\* lines 95-98, the entry does not qualify
ReverseSkip ==
    /\ pc = "reverse" /\ i <= Len(dict2)
    /\ ~Qualifies(dict1, dict2[i][1], dict2[i][2])
    /\ i' = i + 1
    /\ UNCHANGED <<dict1, dict2, matches, total_comparisons, color_similarities, pc, ret,
                   driverVars, aggVars, colorVars>>

\* line 103
Return ==
    /\ pc = "reverse" /\ i > Len(dict2)
    /\ ret' = <<Quotient(matches, total_comparisons), color_similarities>>
    /\ pc' = "done"
    /\ UNCHANGED <<dict1, dict2, matches, total_comparisons, color_similarities, i,
                   driverVars, aggVars, colorVars>>

\* the variables a specification does not use
DriverIdle ==
    /\ user_dict = <<>> /\ dir_exists = TRUE /\ json_files = <<>> /\ file_idx = 0
    /\ similarity_scores_dict = <<>> /\ dpc = "idle" /\ raised = "none" /\ sources = <<>>
ScorerIdle ==
    /\ dict1 = <<>> /\ dict2 = <<>> /\ matches = 0 /\ total_comparisons = 0
    /\ color_similarities = <<>> /\ pc = "idle" /\ i = 0 /\ ret = NoRet
AggIdle == file = [kind |-> "none"] /\ agg = [exc |-> "pending"]
ColorIdle == color1 = "" /\ color2 = "" /\ similarity = -1

\* the scorer called on any user mapping and any reference mapping
Init ==
    /\ dict1 \in DictsOver(UserLabels, UserColors, MaxUser)
    /\ dict2 \in DictsOver(RefLabels, RefColors, MaxRef)
    /\ matches = 0 /\ total_comparisons = 0 /\ color_similarities = <<>>
    /\ pc = "call" /\ i = 0 /\ ret = NoRet
    /\ DriverIdle /\ AggIdle /\ ColorIdle

Next ==
    \/ Enter
    \/ ForwardExact
    \/ ForwardPartial
    \/ ForwardMissing
    \/ ForwardEnd
    \/ ReverseBonus
    \/ ReverseSkip
    \/ Return

Spec == Init /\ [][Next]_vars

---------------------------------------------------------------------------
(* process_json_file called on any reference source *)

AggClasses == {"x", "X", "y"}
AggColors  == {"red", "blue"}
AggScores  == {1, 2}
AggEntries ==
    {Entry(c, n, sc) : c \in AggClasses, n \in AggColors, sc \in AggScores}
        \cup {EntryNoScore}
AggFiles ==
    {MissingFile, UnreadableFile, InvalidJson, JsonNoEntries}
        \cup {JsonFile(es) : es \in UNION {[1..m -> AggEntries] : m \in 0..MaxEntries}}

Aggregate ==
    /\ agg.exc = "pending"
    /\ agg' = process_json_file(file)
    /\ UNCHANGED <<file, scorerVars, driverVars, colorVars>>

InitAgg ==
    /\ file \in AggFiles
    /\ agg = [exc |-> "pending"]
    /\ ScorerIdle /\ DriverIdle /\ ColorIdle

NextAgg == Aggregate

SpecAgg == InitAgg /\ [][NextAgg]_vars

---------------------------------------------------------------------------
(* calculate_color_similarity called on any two color names *)

ColorNames == DOMAIN color_to_rgb \cup {"Red", "White", "BLUE", "zzz", "unknown"}

Compare ==
    /\ similarity = -1
    /\ similarity' = calculate_color_similarity(color1, color2)
    /\ UNCHANGED <<color1, color2, scorerVars, driverVars, aggVars>>

InitColor ==
    /\ color1 \in ColorNames
    /\ color2 \in ColorNames
    /\ similarity = -1
    /\ ScorerIdle /\ DriverIdle /\ AggIdle

NextColor == Compare

SpecColor == InitColor /\ [][NextColor]_vars

---------------------------------------------------------------------------
(* calculate_similarity_scores_dict, lines 152-222 *)

FileNames == {"001.colors.json", "002.colors.json"}

\* the order of sorted() on the file names
NameRank(n) == IF n = "001.colors.json" THEN 1 ELSE 2

\* line 180: file_name.replace('.json', '')
FileKey(n) == IF n = "001.colors.json" THEN "001.colors" ELSE "002.colors"

\* glob.glob: the matching names, each once, in any order
GlobResults ==
    {q \in UNION {[1..m -> FileNames] : m \in 0..Cardinality(FileNames)} :
        \A a, b \in 1..Len(q) : q[a] = q[b] => a = b}

\* line 177: sorted(json_files)
Sorted(q) ==
    [k \in 1..Len(q) |->
        CHOOSE n \in {q[j] : j \in 1..Len(q)} :
            Cardinality({j \in 1..Len(q) : NameRank(q[j]) < NameRank(n)}) = k - 1]

DrvLabels  == {"X", "y"}
DrvColors  == {"red", "blue"}
DrvClasses == {"x", "Y", "z"}
DrvEntries == {Entry(c, n, 1) : c \in DrvClasses, n \in DrvColors} \cup {EntryNoScore}
DrvFiles ==
    {MissingFile, UnreadableFile, InvalidJson, JsonNoEntries}
        \cup {JsonFile(es) : es \in UNION {[1..m -> DrvEntries] : m \in 0..MaxFileEntries}}

\* what is wrong with a reference source, if anything
Fault(f) ==
    IF f.kind # "json" THEN f.kind
    ELSE IF "entries" \notin DOMAIN f.data THEN "no_entries"
    ELSE IF \E k \in 1..Len(f.data.entries) : ~(EntryFields \subseteq DOMAIN f.data.entries[k])
    THEN "bad_entry"
    ELSE "ok"

\* lines 155-175
Discover ==
    /\ dpc = "start"
    /\ IF ~dir_exists \/ json_files = <<>>
       THEN dpc' = "returned"
       ELSE dpc' = "loop"
    /\ file_idx' = 1
    /\ UNCHANGED <<user_dict, dir_exists, json_files, similarity_scores_dict, raised,
                   sources, scorerVars, aggVars, colorVars>>

\* lines 177-198, up to the call of calculate_enhanced_similarity; f is the
\* content open() finds under the file's name
ProcessFile ==
    /\ dpc = "loop" /\ file_idx <= Len(json_files)
    /\ \E f \in DrvFiles :
        LET file_name == Sorted(json_files)[file_idx]
            out == process_json_file(f)
        IN  /\ sources' = Append(sources,
                    [name |-> file_name, fault |-> Fault(f), colors |-> out.colors])
            /\ IF out.exc # "none"
               THEN /\ raised' = out.exc
                    /\ dpc' = "raised"
                    /\ UNCHANGED <<similarity_scores_dict, file_idx, scorerVars>>
               ELSE IF out.colors = <<>>
               THEN /\ similarity_scores_dict' =
                            DictPut(similarity_scores_dict, FileKey(file_name), Zero)
                    /\ file_idx' = file_idx + 1
                    /\ UNCHANGED <<dpc, raised, scorerVars>>
               ELSE /\ dict1' = user_dict
                    /\ dict2' = out.colors
                    /\ pc' = "call"
                    /\ dpc' = "scoring"
                    /\ UNCHANGED <<similarity_scores_dict, file_idx, raised, matches,
                                   total_comparisons, color_similarities, i, ret>>
    /\ UNCHANGED <<user_dict, dir_exists, json_files, aggVars, colorVars>>

\* lines 196-200: the call has returned; its locals are gone
StoreScore ==
    /\ dpc = "scoring" /\ pc = "done"
    /\ similarity_scores_dict' =
            DictPut(similarity_scores_dict, FileKey(Sorted(json_files)[file_idx]), ret[1])
    /\ file_idx' = file_idx + 1
    /\ dpc' = "loop"
    /\ dict1' = <<>> /\ dict2' = <<>> /\ matches' = 0 /\ total_comparisons' = 0
    /\ color_similarities' = <<>> /\ pc' = "idle" /\ i' = 0 /\ ret' = NoRet
    /\ UNCHANGED <<user_dict, dir_exists, json_files, raised, sources, aggVars, colorVars>>

\* line 222
DriverReturn ==
    /\ dpc = "loop" /\ file_idx > Len(json_files)
    /\ dpc' = "returned"
    /\ UNCHANGED <<user_dict, dir_exists, json_files, file_idx, similarity_scores_dict,
                   raised, sources, scorerVars, aggVars, colorVars>>

InitDriver ==
    /\ user_dict \in DictsOver(DrvLabels, DrvColors, MaxUser)
    /\ dir_exists \in BOOLEAN
    /\ json_files \in GlobResults
    /\ dir_exists = FALSE => json_files = <<>>
    /\ file_idx = 0 /\ similarity_scores_dict = <<>>
    /\ dpc = "start" /\ raised = "none" /\ sources = <<>>
    /\ ScorerIdle /\ AggIdle /\ ColorIdle

NextDriver ==
    \/ Discover
    \/ ProcessFile
    \/ StoreScore
    \/ DriverReturn
    \/ Enter
    \/ ForwardExact
    \/ ForwardPartial
    \/ ForwardMissing
    \/ ForwardEnd
    \/ ReverseBonus
    \/ ReverseSkip
    \/ Return

SpecDriver == InitDriver /\ [][NextDriver]_vars

---------------------------------------------------------------------------
(* Claims about calculate_enhanced_similarity, checked under Spec *)

LowerLabels(d1) == {Lower(d1[k][1]) : k \in 1..Len(d1)}
Returned == pc = "done"
BothNonEmpty == dict1 # <<>> /\ dict2 # <<>>

\* the similarity the k-th user entry is owed, from the two mappings alone
EntrySim(d1, d2, k) ==
    IF Has(d2, Lower(d1[k][1]))
    THEN calculate_color_similarity(d1[k][2], Get(d2, Lower(d1[k][1])))
    ELSE 0

SameString(d1, d2, k) ==
    Has(d2, Lower(d1[k][1])) /\ Get(d2, Lower(d1[k][1])) = d1[k][2]

SameUpToCase(d1, d2, k) ==
    Has(d2, Lower(d1[k][1])) /\ Lower(Get(d2, Lower(d1[k][1]))) = Lower(d1[k][2])

RECURSIVE SumSeq(_)
SumSeq(q) == IF q = <<>> THEN 0 ELSE Head(q) + SumSeq(Tail(q))

\* C2: the running numerator is >= 0 and <= the running denominator after every
\* step of the forward and the reverse pass, and the returned score is in [0, 1].
C2_ScoreInUnitInterval ==
    /\ pc \in {"forward", "reverse"} => 0 <= matches /\ matches <= total_comparisons
    /\ Returned => FracLeq(Zero, ret[1]) /\ FracLeq(ret[1], Unity)

\* a run that took partial credit and a reverse-pass bonus has returned
C2_Witness ==
    /\ Returned /\ BothNonEmpty
    /\ \E k \in 1..Len(dict2) : Qualifies(dict1, dict2[k][1], dict2[k][2])
    /\ FracLess(Zero, ret[1]) /\ FracLess(ret[1], Unity)

\* C3 as stated: the list always has len(user) elements, the k-th belonging to
\* the k-th user entry, and a one-entry user mapping against the empty reference
\* yields score 0.0 and list [0.0].
C3_ListLengthAlways ==
    Returned =>
        /\ Len(ret[2]) = Len(dict1)
        /\ \A k \in 1..Len(dict1) : ret[2][k] = EntrySim(dict1, dict2, k)
        /\ (Len(dict1) = 1 /\ dict2 = <<>>) => ret = <<Zero, <<0>>>>

\* C3 amended: when both mappings are non-empty the list has len(user) elements,
\* the k-th belonging to the k-th user entry; when either is empty the list is
\* empty and the score is 0.0.
C3_ListLength ==
    Returned =>
        IF BothNonEmpty
        THEN /\ Len(ret[2]) = Len(dict1)
             /\ \A k \in 1..Len(dict1) : ret[2][k] = EntrySim(dict1, dict2, k)
        ELSE ret = <<Zero, <<>>>>

\* a two-entry user mapping whose entries are owed different similarities
C3_Witness ==
    /\ Returned /\ BothNonEmpty /\ Len(dict1) = 2
    /\ EntrySim(dict1, dict2, 1) # EntrySim(dict1, dict2, 2)
    /\ ret[2] = <<EntrySim(dict1, dict2, 1), EntrySim(dict1, dict2, 2)>>

\* C4: when either mapping is empty the call returns (0.0, []) at once, without
\* a step of the forward or the reverse pass.
C4_Degenerate ==
    (~BothNonEmpty /\ pc # "call") =>
        /\ Returned
        /\ ret = <<Zero, <<>>>>
        /\ i = 0 /\ total_comparisons = 0 /\ color_similarities = <<>>

\* a non-empty user mapping scored against the empty reference has returned
C4_Witness == Returned /\ dict1 # <<>> /\ dict2 = <<>> /\ ret = <<Zero, <<>>>>

\* C6: a user entry whose label is in the reference and whose color equals the
\* reference color up to letter case counts as an exact match, so a mapping of
\* such entries alone (no other reference labels) scores 1.0.
C6_CaseInsensitiveColors ==
    (/\ Returned /\ BothNonEmpty
     /\ \A k \in 1..Len(dict1) : SameUpToCase(dict1, dict2, k)
     /\ Keys(dict2) \subseteq LowerLabels(dict1))
        => ret[1] = Unity

\* C8: with every reference label among the lower-cased user labels the score is
\* (E + 0.8 * sum of s_k over the partial entries) / len(user), and the list
\* holds 1.0, s_k and 0.0 for exact, partial and absent entries.
C8_ForwardArithmetic ==
    (Returned /\ BothNonEmpty /\ Keys(dict2) \subseteq LowerLabels(dict1)) =>
        LET n == Len(dict1)
            E == Cardinality({k \in 1..n : SameString(dict1, dict2, k)})
            s == [k \in 1..n |->
                    IF ~SameString(dict1, dict2, k) /\ Has(dict2, Lower(dict1[k][1]))
                    THEN EntrySim(dict1, dict2, k) ELSE 0]
        IN  /\ ret[1] = Frac(10 * E * One + 8 * SumSeq(s), 10 * n * One)
            /\ ret[2] = [k \in 1..n |->
                           IF SameString(dict1, dict2, k) THEN One ELSE s[k]]

\* an exact, a partial and an absent entry occur, and a run with a partial
\* entry of similarity strictly between 0 and 1 has returned
C8_Witness ==
    /\ Returned /\ BothNonEmpty /\ Keys(dict2) \subseteq LowerLabels(dict1)
    /\ Len(dict1) = 2
    /\ SameString(dict1, dict2, 1)
    /\ ~SameString(dict1, dict2, 2) /\ Has(dict2, Lower(dict1[2][1]))
    /\ 0 < ret[2][2] /\ ret[2][2] < One

\* C10: when every user entry is an exact match the score is exactly 1.0 and the
\* list is all 1.0, whatever other entries the reference holds.
C10_AllExact ==
    (/\ Returned /\ dict1 # <<>>
     /\ \A k \in 1..Len(dict1) : SameString(dict1, dict2, k))
        => /\ ret[1] = Unity
           /\ ret[2] = [k \in 1..Len(dict1) |-> One]

\* all user entries match exactly and another reference entry earned the bonus
C10_Witness ==
    /\ Returned /\ dict1 # <<>>
    /\ \A k \in 1..Len(dict1) : SameString(dict1, dict2, k)
    /\ \E k \in 1..Len(dict2) : Qualifies(dict1, dict2[k][1], dict2[k][2])
    /\ ret[1] = Unity

---------------------------------------------------------------------------
(* Claims about the driver, checked under SpecDriver *)

\* the score stored for the k-th source read
ScoreOf(k) == Get(similarity_scores_dict, FileKey(sources[k].name))
Scored(k) == Has(similarity_scores_dict, FileKey(sources[k].name))

\* reference b is reference a plus at least one entry, and every added entry
\* qualifies for the reverse-pass bonus against the user mapping
AddsQualifying(a, b) ==
    /\ \A k \in 1..Len(a) : Has(b, a[k][1]) /\ Get(b, a[k][1]) = a[k][2]
    /\ Len(b) > Len(a)
    /\ \A k \in 1..Len(b) :
          ~Has(a, b[k][1]) =>
              /\ b[k][1] \notin LowerLabels(user_dict)
              /\ b[k][2] \in Values(user_dict)

BonusPair(a, b) ==
    /\ a \in 1..Len(sources) /\ b \in 1..Len(sources)
    /\ Scored(a) /\ Scored(b)
    /\ sources[a].fault = "ok" /\ sources[b].fault = "ok"
    /\ AddsQualifying(sources[a].colors, sources[b].colors)

\* C1 as stated, for a non-empty reference (both passes run on both references):
\* adding qualifying reverse-pass entries to the reference never changes the
\* final score.
C1_ReverseBonusNoOp ==
    \A a, b \in 1..Len(sources) :
        (BonusPair(a, b) /\ sources[a].colors # <<>>) => ScoreOf(b) = ScoreOf(a)

\* C1 amended: adding qualifying reverse-pass entries never lowers the final
\* score; the score is unchanged exactly when it was already 1.0 and is
\* strictly higher otherwise.
C1_ReverseBonusRaises ==
    \A a, b \in 1..Len(sources) :
        BonusPair(a, b) =>
            /\ FracLeq(ScoreOf(a), ScoreOf(b))
            /\ (ScoreOf(b) = ScoreOf(a)) <=> (ScoreOf(a) = Unity)

\* two sources were scored, the second a non-empty reference plus qualifying
\* entries, and the second scored strictly higher
C1_Witness ==
    /\ dpc = "returned"
    /\ \E a, b \in 1..Len(sources) :
          /\ BonusPair(a, b)
          /\ sources[a].colors # <<>>
          /\ FracLess(ScoreOf(a), ScoreOf(b))

\* C5: a source that is missing, unreadable or malformed gets the score 0.0, no
\* error reaches the caller, and the sources after it are still processed.
C5_FaultsContained ==
    /\ raised = "none"
    /\ \A k \in 1..Len(sources) :
          (sources[k].fault # "ok" /\ (k < Len(sources) \/ dpc = "returned"))
              => Scored(k) /\ ScoreOf(k) = Zero
    /\ dpc \in {"returned", "raised"} /\ dir_exists => Len(sources) = Len(json_files)

---------------------------------------------------------------------------
(* Claims about process_json_file, checked under SpecAgg *)

Aggregated == agg.exc = "none" /\ Fault(file) = "ok"
EntriesOf(f) == f.data.entries

\* the summed score of the entries of label l and color c
RECURSIVE ScoreSum(_, _, _)
ScoreSum(es, l, c) ==
    IF es = <<>> THEN 0
    ELSE (IF Lower(Head(es).class) = l /\ Head(es).dominant_name = c
          THEN Head(es).score ELSE 0) + ScoreSum(Tail(es), l, c)

\* where color c is first met for label l
FirstSeen(es, l, c) ==
    CHOOSE k \in 1..Len(es) :
        /\ Lower(es[k].class) = l /\ es[k].dominant_name = c
        /\ \A j \in 1..(k - 1) : ~(Lower(es[j].class) = l /\ es[j].dominant_name = c)

ColorsOf(es, l) ==
    {es[k].dominant_name : k \in {j \in 1..Len(es) : Lower(es[j].class) = l}}

\* C9: the reference mapping has exactly one entry per distinct lower-cased
\* label; its color has the largest summed score for the label, and of several
\* colors with that sum the one first met for the label.
C9_WeightedMajority ==
    Aggregated =>
        LET es == EntriesOf(file) IN
        /\ IsDict(agg.colors)
        /\ Keys(agg.colors) = {Lower(es[k].class) : k \in 1..Len(es)}
        /\ \A l \in Keys(agg.colors) :
              LET w == Get(agg.colors, l) IN
              /\ w \in ColorsOf(es, l)
              /\ \A c \in ColorsOf(es, l) :
                    /\ ScoreSum(es, l, c) <= ScoreSum(es, l, w)
                    /\ (c # w /\ ScoreSum(es, l, c) = ScoreSum(es, l, w))
                          => FirstSeen(es, l, w) < FirstSeen(es, l, c)

\* two colors tie for a label written in both cases; the winner was met first
\* although the other color reached the sum first
C9_Witness ==
    /\ Aggregated
    /\ LET es == EntriesOf(file) IN
       /\ Len(es) = 3
       /\ es[1].class = "x" /\ es[1].dominant_name = "red" /\ es[1].score = 1
       /\ es[2].class = "X" /\ es[2].dominant_name = "blue" /\ es[2].score = 2
       /\ es[3].class = "x" /\ es[3].dominant_name = "red" /\ es[3].score = 1
    /\ agg.colors = <<<<"x", "red">>>>

---------------------------------------------------------------------------
(* Claims about calculate_color_similarity, checked under SpecColor *)

Compared == similarity # -1

\* opposite corners of the RGB cube: every channel 0 in one and 255 in the other
OppositeCorners(rgb1, rgb2) ==
    \A ch \in 1..3 : {rgb1[ch], rgb2[ch]} = {0, 255}

\* C7: the similarity is in [0, 1], is 1.0 exactly when the two looked-up RGB
\* triples are equal, and is 0.0 for opposite corners of the RGB cube.
C7_SimilarityRange ==
    Compared =>
        /\ 0 <= similarity /\ similarity <= One
        /\ (similarity = One) <=> (LookupRGB(color1) = LookupRGB(color2))
        /\ OppositeCorners(LookupRGB(color1), LookupRGB(color2)) => similarity = 0

\* an unknown name, looked up as black, compared with a case variant of white
C7_Witness ==
    /\ Compared
    /\ color1 = "zzz" /\ color2 = "White"
    /\ similarity = 0

===========================================================================
